---- MODULE Spec2Model ----
(***************************************************************************)
(* CryptoAnalyzer (src/app.py): the two-slot snapshot window, its          *)
(* persistence in the data file, the fetch/rotate/save cycle of            *)
(* update_node_data and the confidence / signal computation.               *)
(*                                                                         *)
(* Every Streamlit script run constructs its own CryptoAnalyzer on the     *)
(* same data file (main, line 253); Procs are two such sessions.           *)
(*                                                                         *)
(* Floats are modelled as exact quotients [num, den] (den > 0) and every   *)
(* comparison against a literal is done by cross-multiplication; on every  *)
(* input of this module the IEEE-754 double evaluation of the source       *)
(* gives the same comparison results as the exact quotient.                *)
(* Timestamps (snapshot 'timestamp', file 'last_updated') are left out:    *)
(* no decision of the program reads them.                                  *)
(***************************************************************************)
EXTENDS Integers, Sequences, FiniteSets, TLC

VARIABLES
    file,           \* content of the data file network_data.json
    pc,             \* pc[p]: where session p's analyzer is
    loaded_from,    \* loaded_from[p]: the file content p's load_node_data read,
                    \* kept while the window is the loaded one
    current_data,   \* current_data[p]: self.current_data
    previous_data,  \* previous_data[p]: self.previous_data
    ret,            \* ret[p]: what the last update_node_data returned
    reported,       \* reported[p]: the st.error of the last update_node_data
    pre_current,    \* self.current_data at the start of the last update_node_data
    fetched,        \* new_data of the last update_node_data
    tor_signal,     \* result of calculate_high_confidence_signal as main holds it
    network_signal, \* result of calculate_network_signal as main holds it
    calls,          \* calls[p]: update_node_data calls on p's analyzer: 0, 1, 2 = more
    last_two        \* the sessions whose json.dump ran to the end last, oldest first

vars == <<file, pc, loaded_from, current_data, previous_data, ret, reported, pre_current,
          fetched, tor_signal, network_signal, calls, last_two>>

Procs == {1, 2}

----------------------------------------------------------------------------
(* Values *)

\* Python None / JSON null
Null == [t |-> "null"]

\* a JSON value that is neither null nor a snapshot object (5, "x", [1])
Junk == [t |-> "junk"]

NoValue == [t |-> "none"]

Rat(n, d) == [num |-> n, den |-> d]

Zero == Rat(0, 1)

\* `not x` of Python: None is falsy, any snapshot dict (six keys) is truthy
Truthy(x) == x.t # "null"

Abs(x) == IF x < 0 THEN -x ELSE x

----------------------------------------------------------------------------
(* fetch_node_data *)

\* one entry of data['nodes']: whether the address holds '.onion', whether the
\* info is a non-empty list, whether str(info) holds '.onion'
Node(addr_onion, info_list, info_onion) ==
    [addr_onion |-> addr_onion, info_list |-> info_list, info_onion |-> info_onion]

RECURSIVE CountActive(_)
CountActive(nodes) ==
    IF nodes = <<>> THEN 0
    ELSE (IF Head(nodes).info_list THEN 1 ELSE 0) + CountActive(Tail(nodes))

RECURSIVE CountTor(_)
CountTor(nodes) ==
    IF nodes = <<>> THEN 0
    ELSE (IF Head(nodes).addr_onion \/ Head(nodes).info_onion THEN 1 ELSE 0)
         + CountTor(Tail(nodes))

\* the dict of lines 71-78 from the three counts
Snapshot(total_nodes, active_nodes, tor_nodes) ==
    [t              |-> "snap",
     total_nodes    |-> total_nodes,
     active_nodes   |-> active_nodes,
     tor_nodes      |-> tor_nodes,
     tor_percentage |-> IF total_nodes > 0 THEN Rat(tor_nodes * 100, total_nodes) ELSE Zero,
     active_ratio   |-> IF total_nodes > 0 THEN Rat(active_nodes, total_nodes) ELSE Zero]

\* the try body, lines 49-78, on a well-formed payload
ParsePayload(data) ==
    Snapshot(data.total_nodes, CountActive(data.nodes), CountTor(data.nodes))

\* responses of the Bitnodes API as requests.get / raise_for_status / json see them
OkResponse(total_nodes, nodes) ==
    [kind |-> "ok", data |-> [total_nodes |-> total_nodes, nodes |-> nodes]]

FailedResponses ==
    {[kind |-> "network_error"], [kind |-> "timeout"], [kind |-> "malformed"]}

\* fetch_node_data mutated: a timeout escapes the handler
FetchTimeoutEscapes(response) ==
    IF response.kind = "ok"
    THEN [raised |-> FALSE, value |-> ParsePayload(response.data)]
    ELSE IF response.kind = "timeout"
         THEN [raised |-> TRUE, value |-> Null]
         ELSE [raised |-> FALSE, value |-> Null]

\* fetch_node_data: every Exception of the try body is caught and None returned
fetch_node_data(response) ==
    IF response.kind = "ok"
    THEN [raised |-> FALSE, value |-> ParsePayload(response.data)]
    ELSE [raised |-> FALSE, value |-> Null]

----------------------------------------------------------------------------
(* The data file *)

Absent     == [kind |-> "absent"]
Unreadable == [kind |-> "unreadable"]   \* exists, open(..., 'r') raises
Corrupt    == [kind |-> "corrupt"]      \* bytes json.load cannot parse
Partial    == [kind |-> "partial"]      \* truncated by open(..., 'w'), dump not finished
NonObject  == [kind |-> "nonobject"]    \* valid JSON that is not an object

ObjectFile(cur, prev) ==
    [kind |-> "object", current_data |-> cur, previous_data |-> prev]

\* the window load_node_data leaves, lines 20-31
load_node_data(f) ==
    IF f.kind = "object"
    THEN [current_data |-> f.current_data, previous_data |-> f.previous_data]
    ELSE [current_data |-> Null, previous_data |-> Null]

----------------------------------------------------------------------------
(* calculate_high_confidence_signal *)

\* r > n/d and r < n/d for a quotient r and a literal n/d (d > 0)
Gt(r, n, d) == r.num * d > n * r.den

Lt(r, n, d) == r.num * d < n * r.den

Geq(r, n, d) == ~Lt(r, n, d)

Leq(r, n, d) == ~Gt(r, n, d)

AbsRat(r) == Rat(Abs(r.num), r.den)

\* line 117 mutated: the division is made whatever previous_tor is
PercentageChangeUnguarded(tor_change, previous_tor) ==
    Rat(tor_change * 100, previous_tor)

\* line 117
PercentageChange(tor_change, previous_tor) ==
    IF previous_tor > 0 THEN Rat(tor_change * 100, previous_tor) ELSE Zero

\* Factor 1 mutated: the boundary is inclusive
MagnitudeFactorInclusive(tor_change) ==
    IF Abs(tor_change) >= 50 THEN "LARGE_TOR_CHANGE"
    ELSE IF Abs(tor_change) > 25 THEN "MEDIUM_TOR_CHANGE"
    ELSE "SMALL_TOR_CHANGE"

\* Factor 1 mutated: a large change is tagged below a medium one
MagnitudeFactorSwapped(tor_change) ==
    IF Abs(tor_change) > 50 THEN "SMALL_TOR_CHANGE"
    ELSE IF Abs(tor_change) > 25 THEN "MEDIUM_TOR_CHANGE"
    ELSE "SMALL_TOR_CHANGE"

\* Factor 1, lines 123-128
MagnitudeFactor(tor_change) ==
    IF Abs(tor_change) > 50 THEN "LARGE_TOR_CHANGE"
    ELSE IF Abs(tor_change) > 25 THEN "MEDIUM_TOR_CHANGE"
    ELSE "SMALL_TOR_CHANGE"

\* Factor 2, lines 131-136
PercentageFactor(percentage_change) ==
    IF Gt(AbsRat(percentage_change), 5, 1) THEN "LARGE_PERCENTAGE_CHANGE"
    ELSE IF Gt(AbsRat(percentage_change), 5, 2) THEN "MEDIUM_PERCENTAGE_CHANGE"
    ELSE "SMALL_PERCENTAGE_CHANGE"

\* Factor 3, lines 139-144
NetworkFactor(current_total) ==
    IF current_total > 10000 THEN "LARGE_NETWORK"
    ELSE IF current_total > 8000 THEN "MEDIUM_NETWORK"
    ELSE "SMALL_NETWORK"

\* Factor 4, lines 147-152
RatioFactor(active_ratio) ==
    IF Geq(active_ratio, 7, 10) /\ Leq(active_ratio, 9, 10) THEN "HEALTHY_ACTIVE_RATIO"
    ELSE IF Geq(active_ratio, 6, 10) /\ Leq(active_ratio, 95, 100) THEN "MODERATE_ACTIVE_RATIO"
    ELSE "POOR_ACTIVE_RATIO"

\* factor.startswith(('LARGE', 'HEALTHY')) over the twelve tags
StartsHigh(factor) ==
    factor \in {"LARGE_TOR_CHANGE", "LARGE_PERCENTAGE_CHANGE", "LARGE_NETWORK",
                "HEALTHY_ACTIVE_RATIO"}

\* factor.startswith(('MEDIUM', 'MODERATE')) over the twelve tags
StartsMedium(factor) ==
    factor \in {"MEDIUM_TOR_CHANGE", "MEDIUM_PERCENTAGE_CHANGE", "MEDIUM_NETWORK",
                "MODERATE_ACTIVE_RATIO"}

\* sum(1 for factor in confidence_factors if factor.startswith(('LARGE', 'HEALTHY')))
CountHigh(confidence_factors) ==
    Cardinality({i \in DOMAIN confidence_factors : StartsHigh(confidence_factors[i])})

\* sum(1 for factor in confidence_factors if factor.startswith(('MEDIUM', 'MODERATE')))
CountMedium(confidence_factors) ==
    Cardinality({i \in DOMAIN confidence_factors : StartsMedium(confidence_factors[i])})

\* lines 155-165
ConfidenceOf(confidence_factors) ==
    LET high_confidence_count   == CountHigh(confidence_factors)
        medium_confidence_count == CountMedium(confidence_factors)
    IN  IF high_confidence_count >= 3 THEN "HIGH"
        ELSE IF high_confidence_count + medium_confidence_count >= 3 THEN "MEDIUM"
        ELSE "LOW"

\* the decision table mutated: the medium rules are tried before the strong ones
SignalTableMediumFirst(tor_change, percentage_change, confidence) ==
    IF tor_change > 25 /\ Gt(percentage_change, 5, 2) /\ confidence \in {"MEDIUM", "HIGH"}
    THEN [signal |-> "SELL", bias |-> "BEARISH", reasoning |-> "Moderate Tor increase"]
    ELSE IF tor_change < -25 /\ Lt(percentage_change, -5, 2) /\ confidence \in {"MEDIUM", "HIGH"}
    THEN [signal |-> "BUY", bias |-> "BULLISH", reasoning |-> "Moderate Tor decrease"]
    ELSE IF tor_change > 50 /\ Gt(percentage_change, 5, 1) /\ confidence = "HIGH"
    THEN [signal |-> "STRONG SELL", bias |-> "HIGHLY BEARISH", reasoning |-> "Large Tor increase"]
    ELSE IF tor_change < -50 /\ Lt(percentage_change, -5, 1) /\ confidence = "HIGH"
    THEN [signal |-> "STRONG BUY", bias |-> "HIGHLY BULLISH", reasoning |-> "Large Tor decrease"]
    ELSE IF tor_change > 10
    THEN [signal |-> "SLIGHT SELL", bias |-> "SLIGHTLY BEARISH", reasoning |-> "Small Tor increase"]
    ELSE IF tor_change < -10
    THEN [signal |-> "SLIGHT BUY", bias |-> "SLIGHTLY BULLISH", reasoning |-> "Small Tor decrease"]
    ELSE [signal |-> "HOLD", bias |-> "NEUTRAL", reasoning |-> "Minimal Tor change"]

\* the if/elif chain of lines 169-202
SignalTable(tor_change, percentage_change, confidence) ==
    IF tor_change > 50 /\ Gt(percentage_change, 5, 1) /\ confidence = "HIGH"
    THEN [signal |-> "STRONG SELL", bias |-> "HIGHLY BEARISH", reasoning |-> "Large Tor increase"]
    ELSE IF tor_change < -50 /\ Lt(percentage_change, -5, 1) /\ confidence = "HIGH"
    THEN [signal |-> "STRONG BUY", bias |-> "HIGHLY BULLISH", reasoning |-> "Large Tor decrease"]
    ELSE IF tor_change > 25 /\ Gt(percentage_change, 5, 2) /\ confidence \in {"MEDIUM", "HIGH"}
    THEN [signal |-> "SELL", bias |-> "BEARISH", reasoning |-> "Moderate Tor increase"]
    ELSE IF tor_change < -25 /\ Lt(percentage_change, -5, 2) /\ confidence \in {"MEDIUM", "HIGH"}
    THEN [signal |-> "BUY", bias |-> "BULLISH", reasoning |-> "Moderate Tor decrease"]
    ELSE IF tor_change > 10
    THEN [signal |-> "SLIGHT SELL", bias |-> "SLIGHTLY BEARISH", reasoning |-> "Small Tor increase"]
    ELSE IF tor_change < -10
    THEN [signal |-> "SLIGHT BUY", bias |-> "SLIGHTLY BULLISH", reasoning |-> "Small Tor decrease"]
    ELSE [signal |-> "HOLD", bias |-> "NEUTRAL", reasoning |-> "Minimal Tor change"]

\* subscripting a value that is not a dict raises
TypeErrorRaised == [exception |-> "TypeError"]

\* the early return of lines 98-108 mutated: the differences are still computed
InsufficientDataKeepsChange(cur, prev) ==
    [current_tor       |-> IF Truthy(cur) THEN cur.tor_nodes ELSE 0,
     previous_tor      |-> IF Truthy(prev) THEN prev.tor_nodes ELSE 0,
     tor_change        |-> (IF Truthy(cur) THEN cur.tor_nodes ELSE 0)
                           - (IF Truthy(prev) THEN prev.tor_nodes ELSE 0),
     percentage_change |-> Zero,
     signal            |-> "INSUFFICIENT_DATA",
     confidence        |-> "LOW",
     bias              |-> "NEED MORE DATA",
     reasoning         |-> "Need at least 2 data points for comparison"]

\* the early return of lines 98-108
InsufficientData(cur, prev) ==
    [current_tor       |-> IF Truthy(cur) THEN cur.tor_nodes ELSE 0,
     previous_tor      |-> IF Truthy(prev) THEN prev.tor_nodes ELSE 0,
     tor_change        |-> 0,
     percentage_change |-> Zero,
     signal            |-> "INSUFFICIENT_DATA",
     confidence        |-> "LOW",
     bias              |-> "NEED MORE DATA",
     reasoning         |-> "Need at least 2 data points for comparison"]

\* lines 110-216
FullSignal(cur, prev) ==
    LET current_tor        == cur.tor_nodes
        previous_tor       == prev.tor_nodes
        current_total      == cur.total_nodes
        active_ratio       == cur.active_ratio
        tor_change         == current_tor - previous_tor
        percentage_change  == PercentageChange(tor_change, previous_tor)
        confidence_factors == << MagnitudeFactor(tor_change),
                                 PercentageFactor(percentage_change),
                                 NetworkFactor(current_total),
                                 RatioFactor(active_ratio) >>
        confidence         == ConfidenceOf(confidence_factors)
        row                == SignalTable(tor_change, percentage_change, confidence)
    IN  [current_tor        |-> current_tor,
         previous_tor       |-> previous_tor,
         tor_change         |-> tor_change,
         percentage_change  |-> percentage_change,
         signal             |-> row.signal,
         confidence         |-> confidence,
         bias               |-> row.bias,
         reasoning          |-> row.reasoning,
         confidence_factors |-> confidence_factors,
         total_nodes        |-> current_total,
         active_ratio       |-> active_ratio]

\* calculate_high_confidence_signal on the window (cur, prev)
calculate_high_confidence_signal(cur, prev) ==
    IF cur = Junk \/ prev = Junk THEN TypeErrorRaised
    ELSE IF ~Truthy(cur) \/ ~Truthy(prev) THEN InsufficientData(cur, prev)
    ELSE FullSignal(cur, prev)

----------------------------------------------------------------------------
(* calculate_network_signal *)

\* lines 232-239 mutated: an unchanged total counts as stable
NetworkLabelZeroStable(total_change) ==
    IF total_change > 100 THEN "NETWORK STRONG GROWTH"
    ELSE IF total_change > 50 THEN "NETWORK GROWING"
    ELSE IF total_change >= 0 THEN "NETWORK STABLE"
    ELSE "NETWORK SHRINKING"

\* lines 232-239: the label of a change of the node total
NetworkLabel(total_change) ==
    IF total_change > 100 THEN "NETWORK STRONG GROWTH"
    ELSE IF total_change > 50 THEN "NETWORK GROWING"
    ELSE IF total_change > 0 THEN "NETWORK STABLE"
    ELSE "NETWORK SHRINKING"

\* calculate_network_signal on the window (cur, prev), lines 218-247
calculate_network_signal(cur, prev) ==
    IF cur = Junk \/ prev = Junk THEN TypeErrorRaised
    ELSE IF ~Truthy(cur) \/ ~Truthy(prev)
    THEN [current_total  |-> IF Truthy(cur) THEN cur.total_nodes ELSE 0,
          previous_total |-> IF Truthy(prev) THEN prev.total_nodes ELSE 0,
          total_change   |-> 0,
          network_signal |-> "INSUFFICIENT_DATA"]
    ELSE LET current_total  == cur.total_nodes
             previous_total == prev.total_nodes
             total_change   == current_total - previous_total
         IN  [current_total  |-> current_total,
              previous_total |-> previous_total,
              total_change   |-> total_change,
              network_signal |-> NetworkLabel(total_change)]

----------------------------------------------------------------------------
(* update_node_data and save_node_data *)

\* lines 90-91 mutated: the assignments are made in the other order
RotateCurrentFirst(cur, prev, new_data) ==
    [current_data |-> new_data, previous_data |-> new_data]

\* lines 90-91: shift current to previous, set new data as current
Rotate(cur, prev, new_data) ==
    [current_data |-> new_data, previous_data |-> cur]

\* the data dict of lines 36-40 as json.dump writes it
Serialized(cur, prev) == ObjectFile(cur, prev)

\* the file after open(..., 'w') truncated it
Truncated(f) == Partial

\* the file once json.dump and close have run to the end: the writer's bytes
\* start at offset 0, so bytes another writer put there since the truncation
\* survive past the writer's last byte when they reach further
Dumped(f, cur, prev) ==
    IF f = Partial THEN {Serialized(cur, prev)}
    ELSE {Serialized(cur, prev), Partial}

----------------------------------------------------------------------------
(* Inputs *)

OnionNode  == Node(TRUE, TRUE, FALSE)
ClearNode  == Node(FALSE, TRUE, FALSE)
SilentNode == Node(FALSE, FALSE, FALSE)

\* what the API answers in the sessions of Spec
Responses ==
    FailedResponses \cup
    { OkResponse(0, <<OnionNode>>),
      OkResponse(3, <<OnionNode, ClearNode, SilentNode>>) }

SnapA == Snapshot(0, 1, 1)
SnapB == Snapshot(3, 2, 1)

\* what the data file holds when the first session starts
InitialFiles ==
    { Absent, Unreadable, Corrupt, NonObject,
      ObjectFile(Null, Null), ObjectFile(SnapA, Null), ObjectFile(SnapB, SnapA),
      ObjectFile(Junk, Null), ObjectFile(SnapA, Junk) }

----------------------------------------------------------------------------
(* State machine *)

Fresh == [p \in Procs |-> NoValue]

Init ==
    /\ file \in InitialFiles
    /\ pc = [p \in Procs |-> "new"]
    /\ loaded_from = Fresh
    /\ current_data = Fresh
    /\ previous_data = Fresh
    /\ ret = [p \in Procs |-> "none"]
    /\ reported = [p \in Procs |-> "none"]
    /\ pre_current = Fresh
    /\ fetched = Fresh
    /\ tor_signal = Fresh
    /\ network_signal = Fresh
    /\ calls = [p \in Procs |-> 0]
    /\ last_two = <<>>

\* CryptoAnalyzer(): __init__ runs load_node_data
Construct(p) ==
    /\ pc[p] = "new"
    /\ LET w == load_node_data(file)
       IN  /\ current_data' = [current_data EXCEPT ![p] = w.current_data]
           /\ previous_data' = [previous_data EXCEPT ![p] = w.previous_data]
    /\ loaded_from' = [loaded_from EXCEPT ![p] = file]
    /\ pc' = [pc EXCEPT ![p] = "idle"]
    /\ UNCHANGED <<file, ret, reported, pre_current, fetched, tor_signal,
                   network_signal, calls, last_two>>

\* update_node_data up to the call of save_node_data (lines 85-91)
UpdateFetch(p) ==
    /\ pc[p] \in {"idle", "returned"}
    /\ \E response \in Responses :
         LET r == fetch_node_data(response)
             w == Rotate(current_data[p], previous_data[p], r.value)
         IN  /\ pre_current' = [pre_current EXCEPT ![p] = current_data[p]]
             /\ fetched' = [fetched EXCEPT ![p] = r.value]
             /\ IF r.raised
                THEN /\ pc' = [pc EXCEPT ![p] = "raised"]
                     /\ ret' = [ret EXCEPT ![p] = "none"]
                     /\ reported' = [reported EXCEPT ![p] = "none"]
                     /\ UNCHANGED <<current_data, previous_data>>
                ELSE IF ~Truthy(r.value)
                THEN /\ pc' = [pc EXCEPT ![p] = "returned"]
                     /\ ret' = [ret EXCEPT ![p] = "False"]
                     /\ reported' = [reported EXCEPT ![p] = "fetch"]
                     /\ UNCHANGED <<current_data, previous_data>>
                ELSE /\ pc' = [pc EXCEPT ![p] = "save_open"]
                     /\ ret' = [ret EXCEPT ![p] = "none"]
                     /\ reported' = [reported EXCEPT ![p] = "none"]
                     /\ current_data' = [current_data EXCEPT ![p] = w.current_data]
                     /\ previous_data' = [previous_data EXCEPT ![p] = w.previous_data]
    /\ calls' = [calls EXCEPT ![p] = IF @ = 0 THEN 1 ELSE 2]
    /\ loaded_from' = [loaded_from EXCEPT ![p] = NoValue]
    /\ UNCHANGED <<file, tor_signal, network_signal, last_two>>

\* the except branch mutated: a failed save makes update_node_data return False
SaveFailedReturnsFalse(p) ==
    /\ reported' = [reported EXCEPT ![p] = "save"]
    /\ ret' = [ret EXCEPT ![p] = "False"]
    /\ pc' = [pc EXCEPT ![p] = "returned"]
    /\ UNCHANGED <<current_data, previous_data>>

\* the except branch mutated: a failed save undoes the shift of line 90 and
\* clears the slot it shifted from
SaveFailedRollsBack(p) ==
    /\ reported' = [reported EXCEPT ![p] = "save"]
    /\ ret' = [ret EXCEPT ![p] = IF calls[p] = 0 THEN @ ELSE "True"]
    /\ pc' = [pc EXCEPT ![p] = "returned"]
    /\ current_data' = [current_data EXCEPT ![p] = previous_data[p]]
    /\ previous_data' = [previous_data EXCEPT ![p] = Null]

\* the except branch of save_node_data (lines 43-44), then line 94 when
\* update_node_data is the caller
SaveFailed(p) ==
    /\ reported' = [reported EXCEPT ![p] = "save"]
    /\ ret' = [ret EXCEPT ![p] = IF calls[p] = 0 THEN @ ELSE "True"]
    /\ pc' = [pc EXCEPT ![p] = "returned"]
    /\ UNCHANGED <<current_data, previous_data>>

\* save_node_data called on the analyzer as load_node_data left it (line 33)
SaveCall(p) ==
    /\ pc[p] = "idle"
    /\ pc' = [pc EXCEPT ![p] = "save_open"]
    /\ UNCHANGED <<file, loaded_from, current_data, previous_data, ret, reported,
                   pre_current, fetched, tor_signal, network_signal, calls, last_two>>

\* save_node_data, line 41: open(self.data_file, 'w') truncates the file or raises
SaveOpen(p) ==
    /\ pc[p] = "save_open"
    /\ \/ /\ file' = Truncated(file)
          /\ pc' = [pc EXCEPT ![p] = "save_dump"]
          /\ UNCHANGED <<current_data, previous_data, ret, reported>>
       \/ /\ SaveFailed(p)
          /\ UNCHANGED file
    /\ UNCHANGED <<loaded_from, pre_current, fetched, tor_signal, network_signal, calls,
                   last_two>>

\* save_node_data, line 42 and the close of the with block: json.dump writes the
\* window or raises part-way; then update_node_data, when it is the caller,
\* returns True (line 94)
SaveDump(p) ==
    /\ pc[p] = "save_dump"
    /\ \/ /\ file' \in Dumped(file, current_data[p], previous_data[p])
          /\ pc' = [pc EXCEPT ![p] = "returned"]
          /\ ret' = [ret EXCEPT ![p] = IF calls[p] = 0 THEN @ ELSE "True"]
          /\ last_two' = IF last_two = <<>> THEN <<p>> ELSE <<last_two[Len(last_two)], p>>
          /\ UNCHANGED <<current_data, previous_data, reported>>
       \/ /\ SaveFailed(p)
          /\ UNCHANGED <<file, last_two>>
    /\ UNCHANGED <<loaded_from, pre_current, fetched, tor_signal, network_signal, calls>>

\* main, lines 350-351: tor_signal = analyzer.calculate_high_confidence_signal(),
\* network_signal = analyzer.calculate_network_signal(); line 351 is not reached
\* when line 350 raised
Render(p) ==
    /\ pc[p] \in {"idle", "returned"}
    /\ LET s == calculate_high_confidence_signal(current_data[p], previous_data[p])
       IN  /\ tor_signal' = [tor_signal EXCEPT ![p] = s]
           /\ network_signal' = [network_signal EXCEPT ![p] =
                 IF s = TypeErrorRaised THEN NoValue
                 ELSE calculate_network_signal(current_data[p], previous_data[p])]
    /\ pc' = [pc EXCEPT ![p] = "rendered"]
    /\ UNCHANGED <<file, loaded_from, current_data, previous_data, ret, reported,
                   pre_current, fetched, calls, last_two>>

\* st.rerun() or the next interaction: the script runs again from main, the
\* analyzer of this run is dropped
Rerun(p) ==
    /\ pc[p] \in {"returned", "rendered", "raised"}
    /\ pc' = [pc EXCEPT ![p] = "new"]
    /\ loaded_from' = [loaded_from EXCEPT ![p] = NoValue]
    /\ current_data' = [current_data EXCEPT ![p] = NoValue]
    /\ previous_data' = [previous_data EXCEPT ![p] = NoValue]
    /\ ret' = [ret EXCEPT ![p] = "none"]
    /\ reported' = [reported EXCEPT ![p] = "none"]
    /\ pre_current' = [pre_current EXCEPT ![p] = NoValue]
    /\ fetched' = [fetched EXCEPT ![p] = NoValue]
    /\ tor_signal' = [tor_signal EXCEPT ![p] = NoValue]
    /\ network_signal' = [network_signal EXCEPT ![p] = NoValue]
    /\ calls' = [calls EXCEPT ![p] = 0]
    /\ UNCHANGED <<file, last_two>>

Next ==
    \E p \in Procs :
        \/ Construct(p)
        \/ UpdateFetch(p)
        \/ SaveOpen(p)
        \/ SaveDump(p)
        \/ Render(p)
        \/ Rerun(p)

Spec == Init /\ [][Next]_vars

----------------------------------------------------------------------------
(* The signal computation on persisted windows *)

\* tor_nodes of the persisted snapshots: differences of 10, 11, 25, 26, 50, 51
\* in both directions, percentages on both sides of 2.5 and 5, a zero count
TorValues == {0, 100, 106, 949, 1000, 1010, 1011, 1025, 1026, 1050, 1051}

\* (total_nodes, active_nodes) on both sides of every network-size boundary
SizesCore == {<<0, 0>>, <<8000, 6000>>, <<10001, 8000>>, <<10000, 5999>>}

\* (total_nodes, active_nodes) at and next to every active-ratio boundary
SizesEdge == {<<8001, 6000>>, <<10000, 7000>>, <<10000, 6999>>, <<10000, 9000>>,
              <<10000, 9001>>, <<10000, 6000>>, <<10000, 9500>>, <<10000, 9501>>}

\* (total_nodes, active_nodes) whose totals lie 50, 51, 100 and 101 below
\* 8000 and 8001
SizesNetwork == {<<7900, 6000>>, <<7950, 6000>>}

SignalSnapshots ==
    {Snapshot(z[1], z[2], tor) : z \in SizesCore, tor \in TorValues}
    \cup {Snapshot(z[1], z[2], tor) : z \in SizesEdge, tor \in {1000, 1051}}
    \cup {Snapshot(z[1], z[2], 1000) : z \in SizesNetwork}

SignalFiles ==
    {ObjectFile(cur, prev) : cur \in SignalSnapshots \cup {Null},
                             prev \in SignalSnapshots \cup {Null}}

\* one session reads a data file left by earlier runs and renders it
InitSignal ==
    /\ file \in SignalFiles
    /\ pc = [p \in Procs |-> IF p = 1 THEN "new" ELSE "off"]
    /\ loaded_from = Fresh
    /\ current_data = Fresh
    /\ previous_data = Fresh
    /\ ret = [p \in Procs |-> "none"]
    /\ reported = [p \in Procs |-> "none"]
    /\ pre_current = Fresh
    /\ fetched = Fresh
    /\ tor_signal = Fresh
    /\ network_signal = Fresh
    /\ calls = [p \in Procs |-> 0]
    /\ last_two = <<>>

NextSignal ==
    \E p \in Procs :
        \/ Construct(p)
        \/ Render(p)
        \/ Rerun(p)

SpecSignal == InitSignal /\ [][NextSignal]_vars

----------------------------------------------------------------------------
(* Loading a data file and saving it back *)

\* a window in every combination of empty and populated slots, and the files
\* load_node_data has to tolerate
RoundTripFiles ==
    InitialFiles
    \cup {ObjectFile(cur, prev) : cur \in {Null, SnapA, SnapB, Snapshot(10001, 8000, 1000)},
                                  prev \in {Null, SnapA, SnapB, Snapshot(10001, 8000, 1000)}}

\* one session loads a data file left by earlier runs and saves it back
InitRoundTrip ==
    /\ file \in RoundTripFiles
    /\ pc = [p \in Procs |-> IF p = 1 THEN "new" ELSE "off"]
    /\ loaded_from = Fresh
    /\ current_data = Fresh
    /\ previous_data = Fresh
    /\ ret = [p \in Procs |-> "none"]
    /\ reported = [p \in Procs |-> "none"]
    /\ pre_current = Fresh
    /\ fetched = Fresh
    /\ tor_signal = Fresh
    /\ network_signal = Fresh
    /\ calls = [p \in Procs |-> 0]
    /\ last_two = <<>>

NextRoundTrip ==
    \E p \in Procs :
        \/ Construct(p)
        \/ SaveCall(p)
        \/ SaveOpen(p)
        \/ SaveDump(p)
        \/ Rerun(p)

SpecRoundTrip == InitRoundTrip /\ [][NextRoundTrip]_vars

----------------------------------------------------------------------------
(* Updating and rendering windows with zero counts *)

\* persisted snapshots without nodes, without Tor nodes, and with both
ZeroSnapshots ==
    {Snapshot(0, 0, 0), Snapshot(8000, 6000, 0), Snapshot(10001, 8000, 0),
     Snapshot(8000, 6000, 11), Snapshot(10001, 8000, 1000)}

ZeroFiles ==
    {ObjectFile(cur, prev) : cur \in ZeroSnapshots \cup {Null},
                             prev \in ZeroSnapshots \cup {Null}}

\* one session loads a data file left by earlier runs, updates and renders
InitZero ==
    /\ file \in ZeroFiles
    /\ pc = [p \in Procs |-> IF p = 1 THEN "new" ELSE "off"]
    /\ loaded_from = Fresh
    /\ current_data = Fresh
    /\ previous_data = Fresh
    /\ ret = [p \in Procs |-> "none"]
    /\ reported = [p \in Procs |-> "none"]
    /\ pre_current = Fresh
    /\ fetched = Fresh
    /\ tor_signal = Fresh
    /\ network_signal = Fresh
    /\ calls = [p \in Procs |-> 0]
    /\ last_two = <<>>

SpecZero == InitZero /\ [][Next]_vars

----------------------------------------------------------------------------
(* One analyzer from an empty window *)

\* the data files from which load_node_data leaves current = previous = None
EmptyFiles == {Absent, Unreadable, Corrupt, NonObject, ObjectFile(Null, Null)}

\* one session constructs its analyzer on such a file
InitEmpty ==
    /\ file \in EmptyFiles
    /\ pc = [p \in Procs |-> IF p = 1 THEN "new" ELSE "off"]
    /\ loaded_from = Fresh
    /\ current_data = Fresh
    /\ previous_data = Fresh
    /\ ret = [p \in Procs |-> "none"]
    /\ reported = [p \in Procs |-> "none"]
    /\ pre_current = Fresh
    /\ fetched = Fresh
    /\ tor_signal = Fresh
    /\ network_signal = Fresh
    /\ calls = [p \in Procs |-> 0]
    /\ last_two = <<>>

\* the analyzer is kept: update_node_data is called on it again and again and
\* its signal is computed at the end
NextEmpty ==
    \E p \in Procs :
        \/ Construct(p)
        \/ UpdateFetch(p)
        \/ SaveOpen(p)
        \/ SaveDump(p)
        \/ Render(p)

SpecEmpty == InitEmpty /\ [][NextEmpty]_vars

----------------------------------------------------------------------------
(* Properties of the signal computation (SpecSignal) *)

IsSnapshot(x) == x.t = "snap"

\* session p has rendered a window whose slots are snapshots or None
RenderedWellFormed(p) ==
    /\ pc[p] = "rendered"
    /\ current_data[p].t \in {"null", "snap"}
    /\ previous_data[p].t \in {"null", "snap"}

RenderedPopulated(p) ==
    /\ pc[p] = "rendered"
    /\ IsSnapshot(current_data[p])
    /\ IsSnapshot(previous_data[p])

TorOrZero(x) == IF IsSnapshot(x) THEN x.tor_nodes ELSE 0

\* C7: whenever either slot of the window is missing, the result is
\* INSUFFICIENT_DATA / LOW / NEED MORE DATA with tor_change = 0 and
\* percentage_change = 0, and current_tor / previous_tor are the tor_nodes of
\* the slot that exists and 0 for the absent one.
C7_InsufficientData ==
    \A p \in Procs :
        (RenderedWellFormed(p) /\ (current_data[p] = Null \/ previous_data[p] = Null)) =>
            /\ tor_signal[p].signal = "INSUFFICIENT_DATA"
            /\ tor_signal[p].confidence = "LOW"
            /\ tor_signal[p].bias = "NEED MORE DATA"
            /\ tor_signal[p].tor_change = 0
            /\ tor_signal[p].percentage_change = Zero
            /\ tor_signal[p].current_tor = TorOrZero(current_data[p])
            /\ tor_signal[p].previous_tor = TorOrZero(previous_data[p])

\* a window with current populated (tor_nodes > 0) and previous missing was rendered
C7_Witness ==
    \E p \in Procs :
        /\ pc[p] = "rendered"
        /\ IsSnapshot(current_data[p])
        /\ current_data[p].tor_nodes > 0
        /\ previous_data[p] = Null
        /\ tor_signal[p].signal = "INSUFFICIENT_DATA"

C8_Rule1(r) == r.tor_change > 50 /\ Gt(r.percentage_change, 5, 1) /\ r.confidence = "HIGH"

C8_Rule2(r) == r.tor_change < -50 /\ Lt(r.percentage_change, -5, 1) /\ r.confidence = "HIGH"

C8_Rule3(r) ==
    r.tor_change > 25 /\ Gt(r.percentage_change, 5, 2) /\ r.confidence \in {"MEDIUM", "HIGH"}

C8_Rule4(r) ==
    r.tor_change < -25 /\ Lt(r.percentage_change, -5, 2) /\ r.confidence \in {"MEDIUM", "HIGH"}

C8_Expected(r) ==
    CASE C8_Rule1(r) -> <<"STRONG SELL", "HIGHLY BEARISH">>
      [] ~C8_Rule1(r) /\ C8_Rule2(r) -> <<"STRONG BUY", "HIGHLY BULLISH">>
      [] ~C8_Rule1(r) /\ ~C8_Rule2(r) /\ C8_Rule3(r) -> <<"SELL", "BEARISH">>
      [] ~C8_Rule1(r) /\ ~C8_Rule2(r) /\ ~C8_Rule3(r) /\ C8_Rule4(r) -> <<"BUY", "BULLISH">>
      [] ~C8_Rule1(r) /\ ~C8_Rule2(r) /\ ~C8_Rule3(r) /\ ~C8_Rule4(r) /\ r.tor_change > 10
            -> <<"SLIGHT SELL", "SLIGHTLY BEARISH">>
      [] ~C8_Rule1(r) /\ ~C8_Rule2(r) /\ ~C8_Rule3(r) /\ ~C8_Rule4(r)
         /\ ~(r.tor_change > 10) /\ r.tor_change < -10
            -> <<"SLIGHT BUY", "SLIGHTLY BULLISH">>
      [] OTHER -> <<"HOLD", "NEUTRAL">>

\* C8: with both slots populated, tor_change and percentage_change are the
\* differences of the two tor_nodes and signal / bias are those of the first
\* matching rule of the seven-rule table; when rule 1 and rule 3 both match the
\* result is STRONG SELL.
C8_DecisionTable ==
    \A p \in Procs :
        RenderedPopulated(p) =>
            LET r == tor_signal[p]
            IN  /\ r.tor_change = current_data[p].tor_nodes - previous_data[p].tor_nodes
                /\ r.percentage_change =
                       PercentageChange(r.tor_change, previous_data[p].tor_nodes)
                /\ <<r.signal, r.bias>> = C8_Expected(r)
                /\ (C8_Rule1(r) /\ C8_Rule3(r)) => r.signal = "STRONG SELL"

\* a window on which rule 1 and rule 3 both match was rendered
C8_Witness ==
    \E p \in Procs :
        /\ RenderedPopulated(p)
        /\ C8_Rule1(tor_signal[p])
        /\ C8_Rule3(tor_signal[p])
        /\ tor_signal[p].signal = "STRONG SELL"

B2N(b) == IF b THEN 1 ELSE 0

\* the number of factors at the high level, from the numbers alone
C9_High(r, cur) ==
    B2N(Abs(r.tor_change) > 50)
    + B2N(Gt(AbsRat(r.percentage_change), 5, 1))
    + B2N(cur.total_nodes > 10000)
    + B2N(Geq(cur.active_ratio, 7, 10) /\ Leq(cur.active_ratio, 9, 10))

\* the number of factors at the middle level, from the numbers alone
C9_Medium(r, cur) ==
    B2N(Abs(r.tor_change) > 25 /\ Abs(r.tor_change) <= 50)
    + B2N(Gt(AbsRat(r.percentage_change), 5, 2) /\ Leq(AbsRat(r.percentage_change), 5, 1))
    + B2N(cur.total_nodes > 8000 /\ cur.total_nodes <= 10000)
    + B2N(/\ Geq(cur.active_ratio, 6, 10) /\ Leq(cur.active_ratio, 95, 100)
          /\ ~(Geq(cur.active_ratio, 7, 10) /\ Leq(cur.active_ratio, 9, 10)))

\* C9: with both slots populated the four factors have the stated boundaries
\* (strict for magnitude, percentage and size, inclusive for the ratio) and
\* confidence is HIGH iff at least 3 factors are high, else MEDIUM iff at least
\* 3 are high or middle, else LOW.
C9_FactorsAndConfidence ==
    \A p \in Procs :
        RenderedPopulated(p) =>
            LET r   == tor_signal[p]
                cur == current_data[p]
                f   == r.confidence_factors
                a   == Abs(r.tor_change)
                pct == AbsRat(r.percentage_change)
                ar  == cur.active_ratio
                healthy == Geq(ar, 7, 10) /\ Leq(ar, 9, 10)
            IN  /\ Len(f) = 4
                /\ (f[1] = "LARGE_TOR_CHANGE") <=> (a > 50)
                /\ (f[1] = "MEDIUM_TOR_CHANGE") <=> (a > 25 /\ a <= 50)
                /\ (f[1] = "SMALL_TOR_CHANGE") <=> (a <= 25)
                /\ (f[2] = "LARGE_PERCENTAGE_CHANGE") <=> Gt(pct, 5, 1)
                /\ (f[2] = "MEDIUM_PERCENTAGE_CHANGE") <=> (Gt(pct, 5, 2) /\ Leq(pct, 5, 1))
                /\ (f[2] = "SMALL_PERCENTAGE_CHANGE") <=> Leq(pct, 5, 2)
                /\ (f[3] = "LARGE_NETWORK") <=> (cur.total_nodes > 10000)
                /\ (f[3] = "MEDIUM_NETWORK") <=>
                       (cur.total_nodes > 8000 /\ cur.total_nodes <= 10000)
                /\ (f[3] = "SMALL_NETWORK") <=> (cur.total_nodes <= 8000)
                /\ (f[4] = "HEALTHY_ACTIVE_RATIO") <=> healthy
                /\ (f[4] = "MODERATE_ACTIVE_RATIO") <=>
                       (Geq(ar, 6, 10) /\ Leq(ar, 95, 100) /\ ~healthy)
                /\ (f[4] = "POOR_ACTIVE_RATIO") <=> (Lt(ar, 6, 10) \/ Gt(ar, 95, 100))
                /\ r.active_ratio = ar
                /\ (r.confidence = "HIGH") <=> (C9_High(r, cur) >= 3)
                /\ (r.confidence = "MEDIUM") <=>
                       (C9_High(r, cur) < 3 /\ C9_High(r, cur) + C9_Medium(r, cur) >= 3)
                /\ (r.confidence = "LOW") <=> (C9_High(r, cur) + C9_Medium(r, cur) < 3)

\* a window with |tor_change| exactly 50 was rendered: the magnitude is MEDIUM
C9_Witness ==
    \E p \in Procs :
        /\ RenderedPopulated(p)
        /\ Abs(tor_signal[p].tor_change) = 50
        /\ tor_signal[p].confidence_factors[1] = "MEDIUM_TOR_CHANGE"

Rank(confidence) ==
    CASE confidence = "LOW" -> 0
      [] confidence = "MEDIUM" -> 1
      [] confidence = "HIGH" -> 2

\* the windows a rendered one is compared with: every current snapshot, every
\* previous tor_nodes (the computation reads nothing else of previous)
OtherWindows ==
    {<<cur, Snapshot(8000, 6000, tor)>> : cur \in SignalSnapshots, tor \in TorValues}

SameOtherFactors(r, o) ==
    /\ o.confidence_factors[2] = r.confidence_factors[2]
    /\ o.confidence_factors[3] = r.confidence_factors[3]
    /\ o.confidence_factors[4] = r.confidence_factors[4]

\* C10: of two populated windows with the same percentage, network-size and
\* active-ratio factors, the one with the larger |tor_change| has a confidence
\* that is at least the other's (LOW < MEDIUM < HIGH).
C10_MonotonicInMagnitude ==
    \A p \in Procs :
        RenderedPopulated(p) =>
            \A w \in OtherWindows :
                LET r == tor_signal[p]
                    o == calculate_high_confidence_signal(w[1], w[2])
                IN  (SameOtherFactors(r, o) /\ Abs(o.tor_change) >= Abs(r.tor_change))
                        => Rank(o.confidence) >= Rank(r.confidence)

\* a rendered window has a counterpart with the same other factors, a larger
\* |tor_change| and a strictly higher confidence
C10_Witness ==
    \E p \in Procs :
        /\ RenderedPopulated(p)
        /\ \E w \in OtherWindows :
               LET r == tor_signal[p]
                   o == calculate_high_confidence_signal(w[1], w[2])
               IN  /\ SameOtherFactors(r, o)
                   /\ Abs(o.tor_change) > Abs(r.tor_change)
                   /\ Rank(o.confidence) > Rank(r.confidence)

C11_Expected(total_change) ==
    CASE total_change > 100 -> "NETWORK STRONG GROWTH"
      [] total_change > 50 /\ total_change <= 100 -> "NETWORK GROWING"
      [] total_change > 0 /\ total_change <= 50 -> "NETWORK STABLE"
      [] total_change <= 0 -> "NETWORK SHRINKING"

\* C11: calculate_network_signal returns INSUFFICIENT_DATA with total_change = 0
\* when either slot of the window is missing; otherwise total_change is
\* current.total_nodes - previous.total_nodes and the label is STRONG GROWTH
\* above 100, GROWING in (50, 100], STABLE in (0, 50] and SHRINKING for every
\* total_change <= 0, an unchanged total included.
C11_NetworkSignal ==
    \A p \in Procs :
        RenderedWellFormed(p) =>
            LET cur == current_data[p]
                prev == previous_data[p]
                n == network_signal[p]
            IN  IF cur = Null \/ prev = Null
                THEN /\ n.network_signal = "INSUFFICIENT_DATA"
                     /\ n.total_change = 0
                ELSE /\ n.total_change = cur.total_nodes - prev.total_nodes
                     /\ n.network_signal = C11_Expected(n.total_change)

\* a window whose two snapshots have the same positive node total was rendered
\* and labelled NETWORK SHRINKING
C11_Witness ==
    \E p \in Procs :
        /\ RenderedPopulated(p)
        /\ current_data[p].total_nodes > 0
        /\ current_data[p].total_nodes = previous_data[p].total_nodes
        /\ network_signal[p].total_change = 0
        /\ network_signal[p].network_signal = "NETWORK SHRINKING"

C13_FourTags(factors) ==
    /\ Len(factors) = 4
    /\ factors[1] \in {"LARGE_TOR_CHANGE", "MEDIUM_TOR_CHANGE", "SMALL_TOR_CHANGE"}
    /\ factors[2] \in {"LARGE_PERCENTAGE_CHANGE", "MEDIUM_PERCENTAGE_CHANGE",
                        "SMALL_PERCENTAGE_CHANGE"}
    /\ factors[3] \in {"LARGE_NETWORK", "MEDIUM_NETWORK", "SMALL_NETWORK"}
    /\ factors[4] \in {"HEALTHY_ACTIVE_RATIO", "MODERATE_ACTIVE_RATIO", "POOR_ACTIVE_RATIO"}

\* C13: the result of calculate_high_confidence_signal carries
\* confidence_factors, a list of exactly four tags (magnitude, percentage,
\* network size, active ratio, in that order), in every window in which main
\* reads the list (lines 402-406): whenever current is populated, whether or
\* not previous is.
C13_ConfidenceFactors ==
    \A p \in Procs :
        (RenderedWellFormed(p) /\ IsSnapshot(current_data[p])) =>
            /\ "confidence_factors" \in DOMAIN tor_signal[p]
            /\ C13_FourTags(tor_signal[p].confidence_factors)

----------------------------------------------------------------------------
(* Properties of zero counts (SpecZero) *)

\* C14: zero denominators evaluate to 0 and nothing raises: a fetched snapshot
\* with total_nodes = 0 has tor_percentage = 0 and active_ratio = 0, and on a
\* populated window with previous.tor_nodes = 0 the signal computation
\* completes with percentage_change = 0, whatever tor_change is, and with one
\* of the seven signals of the table.
C14_ZeroDenominators ==
    \A p \in Procs :
        /\ pc[p] # "raised"
        /\ (IsSnapshot(fetched[p]) /\ fetched[p].total_nodes = 0) =>
               /\ fetched[p].tor_percentage = Zero
               /\ fetched[p].active_ratio = Zero
        /\ (RenderedPopulated(p) /\ previous_data[p].tor_nodes = 0) =>
               /\ tor_signal[p] # TypeErrorRaised
               /\ tor_signal[p].tor_change = current_data[p].tor_nodes
               /\ tor_signal[p].percentage_change = Zero
               /\ tor_signal[p].signal \in {"STRONG SELL", "STRONG BUY", "SELL", "BUY",
                                             "SLIGHT SELL", "SLIGHT BUY", "HOLD"}

\* an update fetched a snapshot with total_nodes = 0 and nodes listed, and the
\* window rendered after it has previous.tor_nodes = 0 and tor_change # 0
C14_Witness ==
    \E p \in Procs :
        /\ RenderedPopulated(p)
        /\ fetched[p] = current_data[p]
        /\ fetched[p].total_nodes = 0
        /\ fetched[p].tor_nodes > 0
        /\ previous_data[p].tor_nodes = 0
        /\ tor_signal[p].tor_change # 0
        /\ tor_signal[p].percentage_change = Zero

----------------------------------------------------------------------------
(* Properties of the window, the update cycle and the data file (Spec) *)

\* C1: a call of update_node_data whose fetch succeeds with snapshot n leaves
\* current = n and previous = the current of before the call; the previous of
\* before the call is held in neither slot (unless it equals one of the two).
C1_RotateOnSuccess ==
    [][\A p \in Procs :
          (UpdateFetch(p) /\ IsSnapshot(fetched'[p])) =>
              /\ current_data'[p] = fetched'[p]
              /\ previous_data'[p] = current_data[p]
              /\ (previous_data[p] \notin {current_data[p], fetched'[p]}
                     => previous_data[p] \notin {current_data'[p], previous_data'[p]})
      ]_vars

\* an analyzer holding a populated window has rotated a different snapshot in
C1_Witness ==
    \E p \in Procs :
        /\ pc[p] = "save_open"
        /\ IsSnapshot(pre_current[p])
        /\ IsSnapshot(fetched[p])
        /\ fetched[p] # pre_current[p]
        /\ current_data[p] = fetched[p]
        /\ previous_data[p] = pre_current[p]

\* C2: when the fetch fails, update_node_data returns False without raising,
\* leaves current and previous as they were and does not write the data file.
C2_FetchFailureLeavesWindow ==
    [][\A p \in Procs :
          (UpdateFetch(p) /\ ~IsSnapshot(fetched'[p])) =>
              /\ pc'[p] = "returned"
              /\ ret'[p] = "False"
              /\ current_data'[p] = current_data[p]
              /\ previous_data'[p] = previous_data[p]
              /\ file' = file
      ]_vars

\* an analyzer with both slots populated has returned False from a failed fetch
C2_Witness ==
    \E p \in Procs :
        /\ pc[p] = "returned"
        /\ ret[p] = "False"
        /\ reported[p] = "fetch"
        /\ IsSnapshot(current_data[p])
        /\ IsSnapshot(previous_data[p])

\* C3: when the fetch succeeded and save_node_data failed to write, the window
\* holds the rotated pair, the failure is reported, nothing is raised and
\* update_node_data returns True.
C3_SaveFailureKeepsRotation ==
    \A p \in Procs :
        /\ pc[p] # "raised"
        /\ (pc[p] = "returned" /\ reported[p] = "save") =>
               /\ ret[p] = "True"
               /\ IsSnapshot(fetched[p])
               /\ current_data[p] = fetched[p]
               /\ previous_data[p] = pre_current[p]

\* a save failed after the rotation of a populated window
C3_Witness ==
    \E p \in Procs :
        /\ pc[p] = "returned"
        /\ reported[p] = "save"
        /\ IsSnapshot(pre_current[p])
        /\ current_data[p] # pre_current[p]

Writing(p) == pc[p] = "save_dump"

\* C4: writes of the data file are atomic: a session about to read it, and
\* anyone once no write is in progress (so also after a write that failed
\* part-way), finds the complete old or the complete new content, never a
\* partially written one.
C4_AtomicWrites ==
    ((\E p \in Procs : pc[p] = "new") \/ (\A p \in Procs : ~Writing(p)))
        => file # Partial

FirstSuccessfulUpdate(p) ==
    /\ pc[p] = "returned"
    /\ calls[p] = 1
    /\ ret[p] = "True"
    /\ reported[p] = "none"

\* C5: when two sessions have each loaded, fetched, rotated and saved, with
\* snapshots a then b in the order their saves completed, the data file holds
\* current = b and previous = a.
C5_RotationsSerialized ==
    \A p, q \in Procs :
        (/\ p # q
         /\ last_two = <<p, q>>
         /\ FirstSuccessfulUpdate(p)
         /\ FirstSuccessfulUpdate(q))
            => file = ObjectFile(fetched[q], fetched[p])

\* the slots of a JSON object that is a persisted window
SlotOk(x) == x = Null \/ IsSnapshot(x)

Malformed(f) ==
    \/ f.kind # "object"
    \/ ~SlotOk(f.current_data)
    \/ ~SlotOk(f.previous_data)

\* C6: load_node_data never fails its caller; on an absent, unreadable or
\* malformed file (not parseable, not an object, or with slots that are not
\* snapshot objects) it leaves current = previous = None, otherwise the
\* persisted current_data and previous_data.
C6_LoadTolerant ==
    [][\A p \in Procs :
          Construct(p) =>
              IF Malformed(file)
              THEN current_data'[p] = Null /\ previous_data'[p] = Null
              ELSE /\ current_data'[p] = file.current_data
                   /\ previous_data'[p] = file.previous_data
      ]_vars

\* C12: for a data file holding a valid window, load_node_data followed by
\* save_node_data leaves the persisted current_data and previous_data as they
\* were, and a load after it yields the window the first load yielded.
C12_RoundTrip ==
    \A p \in Procs :
        (/\ pc[p] = "returned"
         /\ calls[p] = 0
         /\ ~Malformed(loaded_from[p])) =>
            /\ file.kind = "object"
            /\ file.current_data = loaded_from[p].current_data
            /\ file.previous_data = loaded_from[p].previous_data
            /\ load_node_data(file) = load_node_data(loaded_from[p])

----------------------------------------------------------------------------
(* Properties of one analyzer from an empty window (SpecEmpty) *)

Populated(p) == IsSnapshot(current_data[p]) /\ IsSnapshot(previous_data[p])

\* C15: on an analyzer that started from an empty window, whatever the
\* fetches and saves of its update_node_data calls do, previous is populated
\* only if current is; a successful update of a window with current populated
\* leaves both slots populated; and once both slots are populated they stay
\* populated through every later fetch failure and save failure, with a
\* signal other than INSUFFICIENT_DATA.
C15_WindowFillsAndStays ==
    [][\A p \in Procs :
          /\ IsSnapshot(previous_data'[p]) => IsSnapshot(current_data'[p])
          /\ (UpdateFetch(p) /\ IsSnapshot(fetched'[p]) /\ IsSnapshot(current_data[p]))
                 => Populated(p)'
          /\ Populated(p) =>
                 /\ Populated(p)'
                 /\ calculate_high_confidence_signal(current_data'[p], previous_data'[p]).signal
                        # "INSUFFICIENT_DATA"
          /\ (Populated(p) /\ Render(p)) => tor_signal'[p].signal # "INSUFFICIENT_DATA"
      ]_vars

\* after at least two updates of an analyzer that started empty, the last of
\* them a failed fetch, the signal of the populated window was computed
C15_Witness ==
    \E p \in Procs :
        /\ pc[p] = "rendered"
        /\ calls[p] = 2
        /\ reported[p] = "fetch"
        /\ Populated(p)
        /\ tor_signal[p].signal # "INSUFFICIENT_DATA"

====
